---- MODULE Spec2Model ----
(***************************************************************************)
(* Model of src/main.py: the pipeline that stamps a date taken from a      *)
(* media file's name into the file's Exif block.                           *)
(*                                                                         *)
(* Strings are sequences of one-character strings, so that the regular     *)
(* expressions of the program are computed character by character.         *)
(* Three specifications:                                                   *)
(*   ParserSpec  applies parse_filename_to_date to bounded filenames;      *)
(*   Spec        is main() run MaxRuns times over a small file system;     *)
(*   LiveSpec    is one run of main() with weak fairness of its steps.     *)
(***************************************************************************)
EXTENDS Integers, Sequences, FiniteSets, TLC

VARIABLES
    args,            \* parse_arguments(): overwrite, keep_original_path, recursive, paths
    fs,              \* the file system: path -> content
    out_dir_exists,  \* whether args.output_path exists as a directory
    files_list,      \* main: the list returned by get_files_from_path
    idx,             \* main: position of the for loop in files_list
    pc,              \* position of the program
    file,            \* the File object being processed
    im,              \* process_file: the handle returned by Image.open
    existed,         \* save_exif_data: result of os.path.exists(new_file_path)
    exc,             \* the exception in flight ("" when none)
    run,             \* number of the current invocation of main
    fs_before,       \* history: the file system when the current run started
    stamped,         \* history: paths written by img.save in earlier runs
    written,         \* history: paths written by img.save for the current file
    fs_file,         \* history: the file system when process_file was entered
    processed,       \* history: files of this run handed to process_file
    errors           \* history: exceptions caught by main in this run

vars == <<args, fs, out_dir_exists, files_list, idx, pc, file, im, existed,
          exc, run, fs_before, fs_file, stamped, written, processed, errors>>

----------------------------------------------------------------------------
(* Bounds *)

\* number of fragments a filename of ParserSpec is built from
MaxFrags == 4
\* number of media files below the input directory when the first run starts
MaxFiles == 2
\* number of times main() is run over the same directories
MaxRuns == 2

----------------------------------------------------------------------------
(* Text and regular expressions *)

Digits == {"0", "1", "2", "3", "4", "5", "6", "7", "8", "9"}

\* \d
IsDigit(c) == c \in Digits

\* '' , the default of the str fields of File
EmptyStr == << >>

\* REGEX_FILENAME_DATE matched at position i: eight digits in a row
MatchDateAt(s, i) ==
    /\ i >= 1
    /\ i + 7 <= Len(s)
    /\ \A k \in 0..7 : IsDigit(s[i + k])

\* r'at (\d{2})\.(\d{2})\.(\d{2})' matched at position i
MatchTimeAt(s, i) ==
    /\ i >= 1
    /\ i + 10 <= Len(s)
    /\ s[i] = "a" /\ s[i + 1] = "t" /\ s[i + 2] = " "
    /\ IsDigit(s[i + 3]) /\ IsDigit(s[i + 4]) /\ s[i + 5] = "."
    /\ IsDigit(s[i + 6]) /\ IsDigit(s[i + 7]) /\ s[i + 8] = "."
    /\ IsDigit(s[i + 9]) /\ IsDigit(s[i + 10])

\* re.search: try the pattern at every position from the left;
\* the result is the start of the match, 0 for None
RECURSIVE SearchDateFrom(_, _)
SearchDateFrom(s, i) ==
    IF i + 7 > Len(s) THEN 0
    ELSE IF MatchDateAt(s, i) THEN i
    ELSE SearchDateFrom(s, i + 1)

re_search_date(s) == SearchDateFrom(s, 1)

RECURSIVE SearchTimeFrom(_, _)
SearchTimeFrom(s, i) ==
    IF i + 10 > Len(s) THEN 0
    ELSE IF MatchTimeAt(s, i) THEN i
    ELSE SearchTimeFrom(s, i + 1)

re_search_time(s) == SearchTimeFrom(s, 1)

\* the time used when the filename has none
DefaultTime == <<"0", "0", ":", "0", "0", ":", "0", "0">>

\* the time searched only after the date
parsed_date_of_TimeAfterDate(filename, parsed_date) ==
    LET d == re_search_date(filename)
        t == IF d = 0 THEN 0 ELSE SearchTimeFrom(filename, d + 8)
    IN  IF d # 0
        THEN LET date_str == SubSeq(filename, d, d + 3) \o <<":">>
                               \o SubSeq(filename, d + 4, d + 5) \o <<":">>
                               \o SubSeq(filename, d + 6, d + 7)
                 time_str == IF t # 0
                             THEN SubSeq(filename, t + 3, t + 4) \o <<":">>
                                    \o SubSeq(filename, t + 6, t + 7) \o <<":">>
                                    \o SubSeq(filename, t + 9, t + 10)
                             ELSE DefaultTime
             IN  date_str \o <<" ">> \o time_str
        ELSE parsed_date

parsed_date_of(filename, parsed_date) ==
    LET d == re_search_date(filename)
        t == re_search_time(filename)
    IN  IF d # 0
        THEN LET date_str == SubSeq(filename, d, d + 3) \o <<":">>
                               \o SubSeq(filename, d + 4, d + 5) \o <<":">>
                               \o SubSeq(filename, d + 6, d + 7)
                 time_str == IF t # 0
                             THEN SubSeq(filename, t + 3, t + 4) \o <<":">>
                                    \o SubSeq(filename, t + 6, t + 7) \o <<":">>
                                    \o SubSeq(filename, t + 9, t + 10)
                             ELSE DefaultTime
             IN  date_str \o <<" ">> \o time_str
        ELSE parsed_date

\* parse_filename_to_date(file): the File object after the call
parse_filename_to_date(f) ==
    [f EXCEPT !.parsed_date = parsed_date_of(f.filename, f.parsed_date)]


----------------------------------------------------------------------------
(* Paths *)

\* FILES_EXT
FILES_EXT == {<<"j", "p", "e", "g">>, <<"j", "p", "g">>, <<"m", "p", "4">>}

\* str.lower() on the letters the filenames of the model use
LowerChar(c) ==
    CASE c = "J" -> "j"
      [] c = "P" -> "p"
      [] c = "G" -> "g"
      [] OTHER -> c

Lower(s) == [i \in 1..Len(s) |-> LowerChar(s[i])]

\* str.rfind('.'), 0 when there is none
RECURSIVE LastDotFrom(_, _)
LastDotFrom(s, i) ==
    IF i < 1 THEN 0
    ELSE IF s[i] = "." THEN i
    ELSE LastDotFrom(s, i - 1)

\* os.path.splitext on a name without separators: the extension starts at
\* the last dot, unless only dots precede it
splitext(s) ==
    LET d == LastDotFrom(s, Len(s))
    IN  IF d > 0 /\ \E i \in 1..(d - 1) : s[i] # "."
        THEN [base |-> SubSeq(s, 1, d - 1), ext |-> SubSeq(s, d, Len(s))]
        ELSE [base |-> s, ext |-> EmptyStr]

\* os.path.splitext(filename)[1][1:].lower()
extension_of(filename) ==
    LET ext == splitext(filename).ext
    IN  IF ext = EmptyStr THEN EmptyStr ELSE Lower(Tail(ext))

\* os.path.join(directory, filename)
join(directory, filename) == [dir |-> directory, name |-> filename]

\* the '' a path field of File starts with
NoPath == [dir |-> "", name |-> EmptyStr]

\* save_exif_data: the destination before disambiguation
naive_path(output_path, filename) == join(output_path, filename)

\* save_exif_data: f"{base}_{counter}{ext}" with counter = 1
new_filename_of(filename) ==
    LET se == splitext(filename)
    IN  se.base \o <<"_", "1">> \o se.ext

\* the write goes to the naive destination
save_target_Naive(f, output_path, keep_original_path) ==
    IF keep_original_path
    THEN f.file_path
    ELSE join(output_path, f.filename)

\* the flag keep_original_path is read the wrong way round
save_target_Swapped(f, output_path, keep_original_path) ==
    IF ~keep_original_path
    THEN f.file_path
    ELSE join(output_path, new_filename_of(f.filename))

\* save_exif_data: the path img.save writes
save_target(f, output_path, keep_original_path) ==
    IF keep_original_path
    THEN f.file_path
    ELSE join(output_path, new_filename_of(f.filename))

\* the collision is ignored
abort_write_Never(exists, overwrite) == FALSE

\* save_exif_data: a file at the naive destination and no --overwrite
abort_write(exists, overwrite) == exists /\ ~overwrite

----------------------------------------------------------------------------
(* File contents and Exif blocks *)

\* piexif.ExifIFD tag numbers
DateTimeOriginal == 36867
DateTimeDigitized == 36868

\* a value of the dict piexif.load(...)['Exif']:
\* an int, bytes that are not UTF-8, or bytes with their text
IntValue(tag) == [tag |-> tag, type |-> "int", utf8 |-> FALSE, text |-> EmptyStr]
RawValue(tag) == [tag |-> tag, type |-> "bytes", utf8 |-> FALSE, text |-> EmptyStr]
TextValue(tag, t) == [tag |-> tag, type |-> "bytes", utf8 |-> TRUE, text |-> t]

\* the "exif" entry of im.info: absent, bytes piexif.load rejects, or a
\* loadable block with the tags of its Exif IFD
NoExif == [section |-> "none", tags |-> {}]
BadExif == [section |-> "bad", tags |-> {}]
ExifBlock(tags) == [section |-> "ok", tags |-> tags]

\* a file Image.open cannot read (not an image, truncated, an mp4)
Corrupt == [kind |-> "corrupt", px |-> 0, exif |-> NoExif]
\* an image: its pixels and its Exif section
Img(px, exif) == [kind |-> "img", px |-> px, exif |-> exif]

\* new_image_exif_data: the Exif IFD that piexif.dump encodes
new_exif_tags(parsed_date) ==
    LET date_time == parsed_date \o <<" ">> \o DefaultTime
    IN  {TextValue(DateTimeOriginal, date_time), TextValue(DateTimeDigitized, date_time)}

\* new_image_exif_data(file): the File object after the call
new_image_exif_data(f) == [f EXCEPT !.exif_bytes = new_exif_tags(f.parsed_date)]

\* export_exif_data(file): raises when the file cannot be opened or its Exif
\* section cannot be loaded; data is the Exif IFD ({} also stands for None)
export_exif_data(disk, path) ==
    IF path \notin DOMAIN disk THEN [raises |-> TRUE, data |-> {}]
    ELSE IF disk[path].kind = "corrupt" THEN [raises |-> TRUE, data |-> {}]
    ELSE IF disk[path].exif.section = "bad" THEN [raises |-> TRUE, data |-> {}]
    ELSE [raises |-> FALSE, data |-> disk[path].exif.tags]

\* check_exif: the loop over data.items()
has_date_tag(data) ==
    \E v \in data :
        /\ v.type = "bytes"
        /\ v.utf8
        /\ re_search_date(v.text) # 0

\* check_exif(file)
check_exif(disk, path) ==
    LET e == export_exif_data(disk, path)
    IN  [raises |-> e.raises, value |-> ~e.raises /\ has_date_tag(e.data)]

\* img.save(path, exif=exif_bytes): the pixels of the handle and only the
\* given Exif block
saved_image(handle, exif_bytes) == Img(handle.px, ExifBlock(exif_bytes))

\* the file system after a write and after os.remove
WriteFile(disk, path, content) ==
    [p \in DOMAIN disk \cup {path} |-> IF p = path THEN content ELSE disk[p]]

RemoveFile(disk, path) == [p \in DOMAIN disk \ {path} |-> disk[p]]

----------------------------------------------------------------------------
(* The files of the model *)

NameA == <<"I", "-", "2", "0", "2", "3", "0", "6", "1", "5", ".", "j", "p", "g">>
NameB == <<"p", "i", "c", ".", "J", "P", "G">>
NameT == <<"n", ".", "t", "x", "t">>

InputPath == "in"
SubDir == "sub"

InputCandidates ==
    {join(InputPath, NameA), join(InputPath, NameB), join(SubDir, NameA),
     join(InputPath, NameT)}

DateText == <<"2", "0", "2", "0", "0", "1", "0", "2">>
CameraText == <<"2", "0", "2", "0", ":", "0", "1", ":", "0", "2", " ", "0", "3", ":", "0", "4", ":", "0", "5">>

\* what a candidate file may hold when the first run starts: unreadable, no
\* Exif section, an unloadable one, the block of a camera (a date with colons,
\* a maker note (tag 37500) that is not text, a colour space (tag 40961)), or
\* a block with eight digits in a row in a maker note
ContentsFor(path) ==
    IF extension_of(path.name) \notin FILES_EXT THEN {Corrupt}
    ELSE LET px == IF path.dir = SubDir THEN 3 ELSE 1
         IN  {Corrupt,
              Img(px, NoExif),
              Img(px, BadExif),
              Img(px, ExifBlock({TextValue(DateTimeOriginal, CameraText),
                                 RawValue(37500), IntValue(40961)})),
              Img(px, ExifBlock({TextValue(37500, DateText)}))}

\* a file found in the output directory before the first run
OldContent == Img(2, NoExif)

OutputCandidates(output_path) ==
    IF output_path = InputPath THEN {}
    ELSE {join(output_path, NameA), join(output_path, new_filename_of(NameA))}

\* File(...) as get_files_from_path builds it (output_path is not passed)
NewFile(path) ==
    [filename |-> path.name,
     file_path |-> path,
     new_file_path |-> NoPath,
     extension |-> extension_of(path.name),
     parsed_date |-> EmptyStr,
     exif_bytes |-> {}]

\* the value of `file` before the loop binds it
NoFile == NewFile(NoPath)

\* the handle before Image.open
NoImage == [state |-> "none", px |-> 0]

\* None
NoneValue == <<"None">>

\* get_files_from_path: the files below path with an allowed extension
discovered(disk, path, recursive) ==
    {p \in DOMAIN disk :
        /\ p.dir = path \/ (recursive /\ p.dir = SubDir)
        /\ extension_of(p.name) \in FILES_EXT}

\* the orders os.listdir / os.walk may return a set of files in
Orders(S) ==
    {q \in [1..Cardinality(S) -> S] : \A i, j \in 1..Cardinality(S) : q[i] = q[j] => i = j}


----------------------------------------------------------------------------
(* main(), run MaxRuns times *)

ArgsSet ==
    [input_path : {InputPath},
     output_path : {InputPath, "out"},
     recursive : BOOLEAN,
     overwrite : BOOLEAN,
     keep_original_path : BOOLEAN]

\* the states main can be started in, for given arguments and input files
InitWith(argset, candidates) ==
    /\ args \in argset
    /\ \E ins \in SUBSET candidates, outs \in SUBSET OutputCandidates(args.output_path) :
          /\ Cardinality(ins) <= MaxFiles
          /\ \E c \in [ins -> UNION {ContentsFor(p) : p \in ins}] :
                /\ \A p \in ins : c[p] \in ContentsFor(p)
                /\ fs = [p \in ins \cup outs |-> IF p \in ins THEN c[p] ELSE OldContent]
          /\ out_dir_exists \in
                IF args.output_path = InputPath \/ outs # {} THEN {TRUE} ELSE BOOLEAN
    /\ files_list = << >>
    /\ idx = 0
    /\ pc = "start"
    /\ file = NoFile
    /\ im = NoImage
    /\ existed = FALSE
    /\ exc = ""
    /\ run = 1
    /\ fs_before = fs
    /\ fs_file = fs
    /\ stamped = {}
    /\ written = {}
    /\ processed = 0
    /\ errors = 0

Init == InitWith(ArgsSet, InputCandidates)

\* main, lines 177-180: the list of files is retrieved once, up front
StartRun ==
    /\ pc = "start"
    /\ \E q \in Orders(discovered(fs, args.input_path, args.recursive)) :
          files_list' = [i \in DOMAIN q |-> NewFile(q[i])]
    /\ idx' = 0
    /\ pc' = "loop"
    /\ fs_before' = fs
    /\ processed' = 0
    /\ errors' = 0
    /\ UNCHANGED <<args, fs, out_dir_exists, file, im, existed, exc, run,
                   fs_file, stamped, written>>

\* main, lines 182-190: the next file is handed to process_file
NextFile ==
    /\ pc = "loop"
    /\ idx < Len(files_list)
    /\ idx' = idx + 1
    /\ file' = files_list[idx + 1]
    /\ processed' = processed + 1
    /\ existed' = FALSE
    /\ written' = {}
    /\ fs_file' = fs
    /\ pc' = "open"
    /\ UNCHANGED <<args, fs, out_dir_exists, files_list, im, exc, run,
                   fs_before, stamped, errors>>

\* main, line 194: the loop is over
RunComplete ==
    /\ pc = "loop"
    /\ idx >= Len(files_list)
    /\ pc' = "done"
    /\ UNCHANGED <<args, fs, out_dir_exists, files_list, idx, file, im, existed,
                   exc, run, fs_before, fs_file, stamped, written, processed, errors>>

\* process_file, line 198: im = Image.open(file.file_path)
OpenImage ==
    /\ pc = "open"
    /\ IF file.file_path \in DOMAIN fs /\ fs[file.file_path].kind = "img"
       THEN /\ im' = [state |-> "open", px |-> fs[file.file_path].px]
            /\ pc' = "inspect"
            /\ exc' = exc
       ELSE /\ im' = NoImage
            /\ pc' = "except"
            /\ exc' = "OSError"
    /\ UNCHANGED <<args, fs, out_dir_exists, files_list, idx, file, existed, run,
                   fs_before, fs_file, stamped, written, processed, errors>>

\* process_file, lines 200-202: the file is skipped when check_exif is true
Inspect ==
    /\ pc = "inspect"
    /\ LET r == check_exif(fs, file.file_path)
       IN  IF r.raises THEN pc' = "except" /\ exc' = "ValueError"
           ELSE IF r.value THEN pc' = "loop" /\ exc' = exc
           ELSE pc' = "parse" /\ exc' = exc
    /\ UNCHANGED <<args, fs, out_dir_exists, files_list, idx, file, im, existed,
                   run, fs_before, fs_file, stamped, written, processed, errors>>

\* process_file, lines 204-206: the parser, then the test for None
Parse ==
    /\ pc = "parse"
    /\ file' = parse_filename_to_date(file)
    /\ pc' = IF file'.parsed_date = NoneValue THEN "loop" ELSE "synth"
    /\ UNCHANGED <<args, fs, out_dir_exists, files_list, idx, im, existed, exc,
                   run, fs_before, fs_file, stamped, written, processed, errors>>

\* process_file, line 208
Synthesize ==
    /\ pc = "synth"
    /\ file' = new_image_exif_data(file)
    /\ pc' = "resolve"
    /\ UNCHANGED <<args, fs, out_dir_exists, files_list, idx, im, existed, exc,
                   run, fs_before, fs_file, stamped, written, processed, errors>>

\* save_exif_data, lines 146-160: the directory, the collision, the removal
Resolve ==
    /\ pc = "resolve"
    /\ out_dir_exists' = TRUE
    /\ LET new_file_path == naive_path(args.output_path, file.filename)
       IN  /\ existed' = (new_file_path \in DOMAIN fs)
           /\ IF abort_write(existed', args.overwrite)
              THEN /\ pc' = "loop"
                   /\ UNCHANGED <<fs, stamped>>
              ELSE /\ pc' = "write"
                   /\ IF existed'
                      THEN /\ fs' = RemoveFile(fs, new_file_path)
                           /\ stamped' = {s \in stamped : s.path # new_file_path}
                      ELSE UNCHANGED <<fs, stamped>>
    /\ UNCHANGED <<args, files_list, idx, file, im, exc, run, fs_before, fs_file,
                   written, processed, errors>>

\* save_exif_data, lines 162-168: img.save, then img.close
Write ==
    /\ pc = "write"
    /\ LET target == save_target(file, args.output_path, args.keep_original_path)
       IN  /\ fs' = WriteFile(fs, target, saved_image(im, file.exif_bytes))
           /\ file' = IF args.keep_original_path THEN file
                      ELSE [file EXCEPT !.new_file_path = target]
           /\ written' = written \cup {target}
           /\ stamped' = {s \in stamped : s.path # target}
                            \cup {[path |-> target, run |-> run]}
    /\ im' = [im EXCEPT !.state = "closed"]
    /\ pc' = "verify"
    /\ UNCHANGED <<args, out_dir_exists, files_list, idx, existed, exc, run,
                   fs_before, fs_file, processed, errors>>

\* save_exif_data, line 172: assert check_exif(file)
Verify ==
    /\ pc = "verify"
    /\ LET r == check_exif(fs, file.file_path)
       IN  IF r.raises THEN pc' = "except" /\ exc' = "OSError"
           ELSE IF ~r.value THEN pc' = "except" /\ exc' = "AssertionError"
           ELSE pc' = "loop" /\ exc' = exc
    /\ UNCHANGED <<args, fs, out_dir_exists, files_list, idx, file, im, existed,
                   run, fs_before, fs_file, stamped, written, processed, errors>>

\* only one kind of exception is caught
catches_OnlyOSError(e) == e = "OSError"

\* main, line 191: except Exception
catches(e) == e \in {"OSError", "ValueError", "AssertionError"}

\* main, lines 191-192: the per-file error boundary
Except ==
    /\ pc = "except"
    /\ IF catches(exc)
       THEN /\ pc' = "loop"
            /\ errors' = errors + 1
       ELSE /\ pc' = "crashed"
            /\ errors' = errors
    /\ exc' = ""
    /\ UNCHANGED <<args, fs, out_dir_exists, files_list, idx, file, im, existed,
                   run, fs_before, fs_file, stamped, written, processed>>

\* the program is started again with the same arguments
Rerun ==
    /\ pc = "done"
    /\ run < MaxRuns
    /\ run' = run + 1
    /\ pc' = "start"
    /\ UNCHANGED <<args, fs, out_dir_exists, files_list, idx, file, im, existed,
                   exc, fs_before, fs_file, stamped, written, processed, errors>>

Next ==
    \/ StartRun
    \/ NextFile
    \/ RunComplete
    \/ OpenImage
    \/ Inspect
    \/ Parse
    \/ Synthesize
    \/ Resolve
    \/ Write
    \/ Verify
    \/ Except
    \/ Rerun

Spec == Init /\ [][Next]_vars

----------------------------------------------------------------------------
(* One run of main(), with the progress of a sequential program *)

\* a separate output directory, media files only
LiveInit ==
    InitWith({a \in ArgsSet : a.output_path # a.input_path},
             {p \in InputCandidates : extension_of(p.name) \in FILES_EXT})

LiveNext ==
    \/ StartRun
    \/ NextFile
    \/ RunComplete
    \/ OpenImage
    \/ Inspect
    \/ Parse
    \/ Synthesize
    \/ Resolve
    \/ Write
    \/ Verify
    \/ Except

\* every step of the program returns, so the program keeps taking steps
LiveSpec == LiveInit /\ [][LiveNext]_vars /\ WF_vars(LiveNext)

----------------------------------------------------------------------------
(* parse_filename_to_date on bounded filenames *)

Fragments ==
    {<<"I", "M", "G", "-">>, <<"2", "0", "2", "3">>, <<"0", "6", "1", "5">>, <<"7">>, <<"a", "t", " ", "1", "4", ".", "3", "0", ".", "0", "0">>, <<"a", "t", " ", "0", "9", ".", "0", "5", ".">>, <<"5", "9">>, <<".", "j", "p", "g">>}

RECURSIVE Concat(_)
Concat(q) == IF q = << >> THEN << >> ELSE Head(q) \o Concat(Tail(q))

Filenames == {Concat(q) : q \in UNION {[1..n -> Fragments] : n \in 0..MaxFrags}}

ParserInit ==
    /\ args \in {a \in ArgsSet : a.output_path = "out" /\ ~a.recursive
                                  /\ ~a.overwrite /\ ~a.keep_original_path}
    /\ fs = << >>
    /\ out_dir_exists = FALSE
    /\ files_list = << >>
    /\ idx = 0
    /\ pc = "parser"
    /\ \E n \in Filenames : file = NewFile(join(InputPath, n))
    /\ im = NoImage
    /\ existed = FALSE
    /\ exc = ""
    /\ run = 1
    /\ fs_before = fs
    /\ fs_file = fs
    /\ stamped = {}
    /\ written = {}
    /\ processed = 0
    /\ errors = 0

\* a call of parse_filename_to_date(file)
ParserParse ==
    /\ pc = "parser"
    /\ file' = parse_filename_to_date(file)
    /\ pc' = "parsed"
    /\ UNCHANGED <<args, fs, out_dir_exists, files_list, idx, im, existed, exc,
                   run, fs_before, fs_file, stamped, written, processed, errors>>

ParserNext == ParserParse

ParserSpec == ParserInit /\ [][ParserNext]_vars


----------------------------------------------------------------------------
(* Properties *)

\* eight digits in a row start at position i of s
EightDigitsAt(s, i) ==
    /\ i \in 1..(Len(s) - 7)
    /\ \A k \in i..(i + 7) : s[k] \in Digits

\* "at HH.MM.SS" starts at position j of s
AtTimeAt(s, j) ==
    /\ j \in 1..(Len(s) - 10)
    /\ <<s[j], s[j + 1], s[j + 2], s[j + 5], s[j + 8]>> = <<"a", "t", " ", ".", ".">>
    /\ {s[j + 3], s[j + 4], s[j + 6], s[j + 7], s[j + 9], s[j + 10]} \subseteq Digits

HasDateRun(s) == \E i \in 1..Len(s) : EightDigitsAt(s, i)

Least(S) == CHOOSE x \in S : \A y \in S : x <= y

\* the processing of the current file has ended
FileEnded == idx > 0 /\ pc \in {"loop", "done", "start"}

\* the naive destination and the disambiguated one of the current file
NaiveDest == [dir |-> args.output_path, name |-> file.filename]
DisambiguatedDest ==
    [dir |-> args.output_path,
     name |-> splitext(file.filename).base \o <<"_", "1">> \o splitext(file.filename).ext]

\* the paths of the output directory
OutputPaths(disk) == {p \in DOMAIN disk : p.dir = args.output_path}

\* the Exif block of a stamped file
IsStamped(content) ==
    /\ content.kind = "img"
    /\ content.exif.section = "ok"
    /\ content.exif.tags = file.exif_bytes
    /\ {v.tag : v \in content.exif.tags} = {DateTimeOriginal, DateTimeDigitized}

\* C1: a file stamped by an earlier run is skipped by the next run
\* (the Inspector reports "has date") and that run changes nothing on disk
\* while it handles the file.
C1_Idempotence ==
    (/\ run > 1
     /\ idx > 0
     /\ pc \notin {"start", "done", "crashed"}
     /\ \E st \in stamped : st.path = file.file_path /\ st.run < run)
    => /\ pc \in {"open", "inspect", "loop"}
       /\ fs = fs_file
       /\ written = {}

\* C2: every file written with the block of new_image_exif_data is reported
\* as "has date" by check_exif, and the assertion after the write passes.
C2_RoundTrip ==
    /\ \A p \in written : p \in DOMAIN fs => check_exif(fs, p).value
    /\ exc # "AssertionError"

\* C3: a file whose name has no run of eight digits gets no metadata block
\* and nothing is written or removed for it.
C3_NoDateSkipped ==
    (/\ idx > 0
     /\ pc \in {"synth", "resolve", "write", "verify", "except", "loop", "done"}
     /\ ~HasDateRun(file.filename))
    => /\ file.exif_bytes = {}
       /\ written = {}
       /\ fs = fs_file

\* C4: when a file exists at the naive destination and overwrite is false,
\* save_exif_data writes nothing: the file system is as it was when the file
\* was taken up, whatever keepOriginalPath is.
C4_CollisionNoOverwrite ==
    (idx > 0 /\ existed /\ ~args.overwrite)
    => /\ fs = fs_file
       /\ written = {}
       /\ NaiveDest \in DOMAIN fs
       /\ pc \in {"loop", "done", "start"}

C4_Witness ==
    /\ pc = "loop"
    /\ existed
    /\ ~args.overwrite
    /\ args.keep_original_path
    /\ file.exif_bytes # {}
    /\ args.output_path # args.input_path

\* C5: with keepOriginalPath false a write goes to outputDirectory/<base>_1<ext>
\* and to no other path, and a file that existed at the naive destination has
\* been removed before the write (which needs overwrite).
C5_DestinationRule ==
    /\ (pc = "write" /\ ~args.keep_original_path)
          => (NaiveDest \notin DOMAIN fs /\ written = {} /\ (existed => args.overwrite))
    /\ (written # {} /\ ~args.keep_original_path)
          => /\ written = {DisambiguatedDest}
             /\ DisambiguatedDest \in DOMAIN fs
             /\ IsStamped(fs[DisambiguatedDest])
             /\ file.new_file_path = DisambiguatedDest
             /\ NaiveDest \notin DOMAIN fs
             /\ existed => (args.overwrite /\ NaiveDest \in DOMAIN fs_file)
             /\ \A p \in (DOMAIN fs \cup DOMAIN fs_file) \ {DisambiguatedDest, NaiveDest} :
                   p \in DOMAIN fs /\ p \in DOMAIN fs_file /\ fs[p] = fs_file[p]

C5_Witness ==
    /\ pc = "verify"
    /\ ~args.keep_original_path
    /\ existed
    /\ args.overwrite
    /\ written = {DisambiguatedDest}
    /\ NaiveDest \notin DOMAIN fs

\* the source of the current file holds the stamped image and the output
\* directory has no path it did not have when the file was taken up
StampedInPlace ==
    /\ written = {file.file_path}
    /\ file.file_path \in DOMAIN fs
    /\ IsStamped(fs[file.file_path])
    /\ fs[file.file_path].px = fs_file[file.file_path].px
    /\ OutputPaths(fs) \subseteq DOMAIN fs_file

\* the current file went past the Inspector and the Parser found a date
ReachedWriteStep == file.exif_bytes # {} /\ HasDateRun(file.filename)

\* C6 as stated: with keepOriginalPath true every file that reaches the write
\* step is overwritten in place and nothing is created in the output directory.
C6_InPlace_Original ==
    (FileEnded /\ args.keep_original_path /\ ReachedWriteStep) => StampedInPlace

\* C6 amended: the same, unless a file exists at the naive destination and
\* overwrite is false (then nothing is written).
C6_InPlace ==
    (FileEnded /\ args.keep_original_path /\ ReachedWriteStep
        /\ ~(existed /\ ~args.overwrite))
    => StampedInPlace

C6_Witness ==
    /\ pc = "loop"
    /\ idx > 0
    /\ args.keep_original_path
    /\ ReachedWriteStep
    /\ existed
    /\ args.overwrite
    /\ StampedInPlace
    /\ fs[file.file_path] # fs_file[file.file_path]

\* C7: once an exception of a file is in flight, main still hands every file
\* of the list to process_file and reports completion.
C7_FailureIsolation ==
    [](pc = "except" => <>(pc = "done" /\ processed = Len(files_list) /\ errors > 0))

C7_Witness ==
    /\ pc = "done"
    /\ errors = 1
    /\ Len(files_list) >= 2
    /\ processed = Len(files_list)
    /\ written # {}

\* C8: parsed_date is "YYYY:MM:DD HH:MM:SS" from the leftmost run of eight
\* digits and the first "at HH.MM.SS" anywhere in the name (00:00:00 without
\* one), and stays empty when the name has no run of eight digits.
C8_ParserResult ==
    pc = "parsed" =>
        LET s == file.filename
            I == {i \in 1..Len(s) : EightDigitsAt(s, i)}
            J == {j \in 1..Len(s) : AtTimeAt(s, j)}
        IN  IF I = {}
            THEN file.parsed_date = EmptyStr
            ELSE LET i == Least(I)
                     hms == IF J = {}
                            THEN <<"0", "0", ":", "0", "0", ":", "0", "0">>
                            ELSE LET j == Least(J)
                                 IN  <<s[j + 3], s[j + 4], ":", s[j + 6], s[j + 7], ":",
                                       s[j + 9], s[j + 10]>>
                 IN  file.parsed_date =
                        <<s[i], s[i + 1], s[i + 2], s[i + 3], ":", s[i + 4], s[i + 5], ":",
                          s[i + 6], s[i + 7], " ">> \o hms

C8_Witness ==
    /\ pc = "parsed"
    /\ file.parsed_date = <<"2", "0", "2", "3", ":", "0", "6", ":", "1", "5", " ", "1", "4", ":", "3", "0", ":", "0", "0">>
    /\ AtTimeAt(file.filename, 1)
    /\ EightDigitsAt(file.filename, 16)

\* C9: the handle opened for a file is closed when main moves to the next
\* file, on every path through process_file.
C9_HandleReleased == pc = "loop" => im.state # "open"

\* C10: with overwrite false and keepOriginalPath false, every file that was
\* in the output directory when the run started is still there, unchanged.
C10_ExistingOutputProtected ==
    (~args.overwrite /\ ~args.keep_original_path)
    => \A p \in DOMAIN fs_before :
          p.dir = args.output_path => (p \in DOMAIN fs /\ fs[p] = fs_before[p])

====
